---- MODULE Spec2Model ----
(***************************************************************************)
(* A model of aeonflux's algebraic MAC (src/amacs.rs): the secret key's    *)
(* generation and byte codec, the derivation of messages from attributes,  *)
(* and Amac::tag / Amac::verify.                                           *)
(*                                                                         *)
(* The prime-order Ristretto group is modelled by the additive group of    *)
(* integers modulo GroupOrder, and its scalar field by the integers modulo *)
(* GroupOrder: a point is an integer P standing for P times a fixed base,  *)
(* point addition is addition and scalar multiplication is multiplication  *)
(* modulo GroupOrder.  A 32-byte field of the wire format is modelled by   *)
(* one integer ("chunk") in 0 .. ChunkValues-1, the little-endian value of *)
(* the field scaled down.                                                  *)
(***************************************************************************)
EXTENDS Integers, Sequences, FiniteSets, TLC

\* ------------------------------------------------------------------ bounds

\* The largest NUMBER_OF_ATTRIBUTES of any system parameters.
MaxAttrs == 2

\* The number of seeds the random source may start from.
NumSeeds == 6

\* How many times a serialised key is altered before it is deserialised.
MaxTampers == 1

\* ------------------------------------------------------------------ group

\* The order of the group and of its scalar field (a prime).
GroupOrder == 3

\* RistrettoPoint::identity()
Identity == 0

\* RistrettoPoint + RistrettoPoint
PointAdd(P, Q) == (P + Q) % GroupOrder

\* Scalar * RistrettoPoint
PointMul(s, P) == (s * P) % GroupOrder

\* Scalar * Scalar
ScalarMul(a, b) == (a * b) % GroupOrder

\* The values a 32-byte field can hold: the canonical scalars are the values
\* below GroupOrder, the others are unreduced.
ChunkValues == 2 * GroupOrder
Chunks == 0 .. (ChunkValues - 1)

\* Scalar::as_bytes: the little-endian bytes of the reduced value.
ScalarAsBytes(s) == s % GroupOrder

\* Scalar::from_canonical_bytes: None unless the value is fully reduced.
\* The result is a sequence: <<>> for None, <<s>> for Some(s).
FromCanonicalBytes(chunk) == IF chunk < GroupOrder THEN <<chunk>> ELSE <<>>

\* RistrettoPoint::compress: the encoding of a point is a non-negative (even)
\* field element.
Compress(P) == 2 * P

\* CompressedRistretto::decompress: None for a negative (odd) or unreduced
\* encoding.
Decompress(chunk) ==
    IF chunk % 2 = 0 /\ chunk < 2 * GroupOrder THEN <<chunk \div 2>> ELSE <<>>

\* u32::to_le_bytes, for a count that fits the 31 bits of a model integer.
U32ToLeBytes(n) ==
    << n % 256, (n \div 256) % 256, (n \div 65536) % 256, (n \div 16777216) % 256 >>

\* u32::from_le_bytes
U32FromLeBytes(b) == b[1] + 256 * b[2] + 65536 * b[3] + 16777216 * b[4]

\* ------------------------------------------------------------------ random source

\* One step of the caller's random source (RngCore): a linear congruential
\* generator over a small state.
RngStep(s) == (5 * s + 3) % 16

\* Scalar::random(csprng): the next state and the scalar drawn.
RandomScalar(s) == [rng |-> RngStep(s), value |-> RngStep(s) % GroupOrder]

\* RistrettoPoint::random(csprng): the next state and the point drawn.
RandomPoint(s) == [rng |-> RngStep(s), value |-> (RngStep(s) \div 2) % GroupOrder]

\* n successive Scalar::random draws.
RECURSIVE RandomScalars(_, _)
RandomScalars(s, n) ==
    IF n = 0 THEN [rng |-> s, values |-> <<>>]
    ELSE LET d    == RandomScalar(s)
             rest == RandomScalars(d.rng, n - 1)
         IN  [rng |-> rest.rng, values |-> <<d.value>> \o rest.values]

\* ------------------------------------------------------------------ parameters

\* A generator: a point other than the identity.
RandomGenerator(s) == [rng |-> RngStep(s), value |-> 1 + (RngStep(s) % (GroupOrder - 1))]

RECURSIVE RandomGenerators(_, _)
RandomGenerators(s, n) ==
    IF n = 0 THEN [rng |-> s, values |-> <<>>]
    ELSE LET d    == RandomGenerator(s)
             rest == RandomGenerators(d.rng, n - 1)
         IN  [rng |-> rest.rng, values |-> <<d.value>> \o rest.values]

\* SystemParameters::generate(csprng, n): the attribute count, the generator
\* G_w and one generator per attribute slot.
SystemParametersGenerate(s, n) ==
    LET gw == RandomGenerator(s)
        gm == RandomGenerators(gw.rng, n)
    IN  [rng |-> gm.rng,
         sp  |-> [NUMBER_OF_ATTRIBUTES |-> n, G_w |-> gw.value, G_m |-> gm.values]]

\* ------------------------------------------------------------------ SecretKey

\* fn sizeof_secret_key(number_of_attributes: u32) -> usize
sizeof_secret_key(number_of_attributes) == 32 * (5 + number_of_attributes) + 4

\* SecretKey::generate(csprng, system_parameters)
SecretKeyGenerate(s, sp) ==
    LET w       == RandomScalar(s)
        w_prime == RandomScalar(w.rng)
        x_0     == RandomScalar(w_prime.rng)
        x_1     == RandomScalar(x_0.rng)
        y       == RandomScalars(x_1.rng, sp.NUMBER_OF_ATTRIBUTES)
    IN  [rng |-> y.rng,
         sk  |-> [w |-> w.value, w_prime |-> w_prime.value,
                  x_0 |-> x_0.value, x_1 |-> x_1.value,
                  y |-> y.values,
                  W |-> PointMul(w.value, sp.G_w)]]

\* impl Zeroize for SecretKey: every scalar becomes zero, the vector y is
\* zeroed and cleared, W becomes the identity.
Zeroize(sk) ==
    [w |-> 0, w_prime |-> 0, x_0 |-> 0, x_1 |-> 0, y |-> <<>>, W |-> Identity]

\* A byte string is its first four bytes (head) and the 32-byte fields that
\* follow them (body).
ByteLen(bytes) == Len(bytes.head) + 32 * Len(bytes.body)

\* &bytes[index..index+32] for an index of the form 4 + 32*k.
Slice32(bytes, index) == bytes.body[((index - 4) \div 32) + 1]

\* SecretKey::to_bytes
to_bytes(sk) ==
    [head |-> U32ToLeBytes(Len(sk.y)),
     body |-> << ScalarAsBytes(sk.w), ScalarAsBytes(sk.w_prime),
                 ScalarAsBytes(sk.x_0), ScalarAsBytes(sk.x_1) >>
              \o [i \in 1 .. Len(sk.y) |-> ScalarAsBytes(sk.y[i])]
              \o << Compress(sk.W) >>]

\* The outcome of from_bytes: the result kind, the key of an Ok result, and
\* the locals as the call leaves them (the working buffer and the scalars
\* decoded so far, in decoding order).
Outcome(result, sk, chunk, decoded) ==
    [result |-> result, sk |-> sk, chunk |-> chunk, decoded |-> decoded]

\* SecretKey::from_bytes
from_bytes(bytes) ==
    IF ByteLen(bytes) < sizeof_secret_key(1)
    THEN Outcome("KeypairDeserialisation", <<>>, 0, <<>>)
    ELSE
    LET number_of_attributes == U32FromLeBytes(bytes.head)
        c1 == Slice32(bytes, 4)
        w  == FromCanonicalBytes(c1)
        c2 == Slice32(bytes, 36)
        w_prime == FromCanonicalBytes(c2)
        c3 == Slice32(bytes, 68)
        x_0 == FromCanonicalBytes(c3)
        c4 == Slice32(bytes, 100)
        x_1 == FromCanonicalBytes(c4)
        \* the buffer as the loop finds it: it is not refilled inside the loop
        c5 == Slice32(bytes, 132)
        yi == FromCanonicalBytes(c5)
        index == 132 + 32 * number_of_attributes
    IN  IF w = <<>> THEN Outcome("KeypairDeserialisation", <<>>, c1, <<>>)
        ELSE IF w_prime = <<>> THEN Outcome("KeypairDeserialisation", <<>>, c2, w)
        ELSE IF x_0 = <<>> THEN Outcome("KeypairDeserialisation", <<>>, c3, w \o w_prime)
        ELSE IF x_1 = <<>>
             THEN Outcome("KeypairDeserialisation", <<>>, c4, w \o w_prime \o x_0)
        ELSE IF number_of_attributes > 0 /\ yi = <<>>
             THEN Outcome("KeypairDeserialisation", <<>>, c5, w \o w_prime \o x_0 \o x_1)
        ELSE
        LET y == [i \in 1 .. number_of_attributes |-> yi[1]]
            fixed == w \o w_prime \o x_0 \o x_1
        IN  IF index + 32 > ByteLen(bytes)
            THEN Outcome("Panic", <<>>, c5, fixed \o y)
            ELSE
            LET W == Decompress(Slice32(bytes, index))
            IN  IF W = <<>>
                THEN Outcome("KeypairDeserialisation", <<>>, c5, fixed \o y)
                ELSE Outcome("Ok",
                             << [w |-> w[1], w_prime |-> w_prime[1],
                                 x_0 |-> x_0[1], x_1 |-> x_1[1],
                                 y |-> y, W |-> W[1]] >>,
                             c5, fixed \o y)

\* ------------------------------------------------------------------ Attribute, Messages

\* enum Attribute.  A Plaintext is represented by its field M1, the only one
\* this module reads.
Kinds == {"PublicScalar", "SecretScalar", "PublicPoint", "EitherPoint", "SecretPoint"}

PublicScalar(m) == [kind |-> "PublicScalar", val |-> m]
SecretScalar(m) == [kind |-> "SecretScalar", val |-> m]
PublicPoint(M)  == [kind |-> "PublicPoint", val |-> M]
EitherPoint(M1) == [kind |-> "EitherPoint", val |-> M1]
SecretPoint(M1) == [kind |-> "SecretPoint", val |-> M1]

Attributes == [kind : Kinds, val : 0 .. (GroupOrder - 1)]

IsScalarAttribute(a) == a.kind \in {"PublicScalar", "SecretScalar"}

\* The match of Messages::from_attributes for the attribute at (1-based)
\* position i; G_m[i] must exist for a scalar attribute.
MessageOf(a, i, sp) ==
    IF IsScalarAttribute(a) THEN PointMul(a.val, sp.G_m[i]) ELSE a.val

\* Messages::from_attributes: indexing G_m past its end panics.
from_attributes(attributes, sp) ==
    IF \E i \in 1 .. Len(attributes) :
          IsScalarAttribute(attributes[i]) /\ i > Len(sp.G_m)
    THEN [panic |-> TRUE, messages |-> <<>>]
    ELSE [panic |-> FALSE,
          messages |-> [i \in 1 .. Len(attributes) |-> MessageOf(attributes[i], i, sp)]]

\* ------------------------------------------------------------------ Amac

Min(a, b) == IF a < b THEN a ELSE b

\* The sum of scalars[i] * points[i] over the first n pairs.
RECURSIVE SumOfProducts(_, _, _)
SumOfProducts(scalars, points, n) ==
    IF n = 0 THEN Identity
    ELSE PointAdd(SumOfProducts(scalars, points, n - 1),
                  PointMul(scalars[n], points[n]))

\* RistrettoPoint::multiscalar_mul(scalars, points).  The trait calls slices
\* of different lengths an error: a build whose implementation checks the
\* lengths (checked) panics on them, one that does not pairs the elements up
\* to the end of the shorter slice.
multiscalar_mul(scalars, points, checked) ==
    IF checked /\ Len(scalars) # Len(points)
    THEN [panic |-> TRUE, value |-> Identity]
    ELSE [panic |-> FALSE,
          value |-> SumOfProducts(scalars, points, Min(Len(scalars), Len(points)))]

\* compute_V as it would be without its line "V += multiscalar_mul(..)": the
\* attributes are left out of V.
compute_V_without_messages(sp, sk, attributes, t, U, checked) ==
    LET messages == from_attributes(attributes, sp)
        V   == PointAdd(PointAdd(sk.W, PointMul(sk.x_0, U)),
                        PointMul(ScalarMul(sk.x_1, t), U))
    IN  IF messages.panic
        THEN [panic |-> TRUE, V |-> Identity]
        ELSE [panic |-> FALSE, V |-> V]

\* Amac::compute_V
compute_V(sp, sk, attributes, t, U, checked) ==
    LET messages == from_attributes(attributes, sp)
        V   == PointAdd(PointAdd(sk.W, PointMul(sk.x_0, U)),
                        PointMul(ScalarMul(sk.x_1, t), U))
        sum == multiscalar_mul(sk.y, messages.messages, checked)
    IN  IF messages.panic \/ sum.panic
        THEN [panic |-> TRUE, V |-> Identity]
        ELSE [panic |-> FALSE, V |-> PointAdd(V, sum.value)]

\* The guard of Amac::tag as it would be with >= for >.
TooManyMessagesOffByOne(messages, sp) == Len(messages) >= sp.NUMBER_OF_ATTRIBUTES

\* The guard of Amac::tag.
TooManyMessages(messages, sp) == Len(messages) > sp.NUMBER_OF_ATTRIBUTES

\* Amac::tag.  drew: how many values it took from the random source;
\* computed: whether it called compute_V.
tag(s, sp, sk, messages, checked) ==
    IF TooManyMessages(messages, sp)
    THEN [rng |-> s, result |-> "MessageLengthError",
          length |-> sp.NUMBER_OF_ATTRIBUTES, amac |-> <<>>,
          drew |-> 0, computed |-> FALSE]
    ELSE
    LET t == RandomScalar(s)
        U == RandomPoint(t.rng)
        V == compute_V(sp, sk, messages, t.value, U.value, checked)
    IN  IF V.panic
        THEN [rng |-> U.rng, result |-> "Panic", length |-> 0, amac |-> <<>>,
              drew |-> 2, computed |-> TRUE]
        ELSE [rng |-> U.rng, result |-> "Ok", length |-> 0,
              amac |-> << [t |-> t.value, U |-> U.value, V |-> V.V] >>,
              drew |-> 2, computed |-> TRUE]

\* Amac::verify
verify(amac, sp, sk, messages, checked) ==
    LET V_prime == compute_V(sp, sk, messages, amac.t, amac.U, checked)
    IN  IF V_prime.panic THEN "Panic"
        ELSE IF amac.V = V_prime.V THEN "Ok"
        ELSE "AuthenticationError"

\* ------------------------------------------------------------------ state

VARIABLES
    rng,            \* the state of the caller's random source
    params,         \* the SystemParameters in use
    lengthsChecked, \* whether this build's multiscalar_mul checks its lengths
    key,            \* <<>> or <<sk>>: the generated SecretKey
    keyParams,      \* <<>> or <<sp>>: the parameters the key was generated under
    bytes,          \* <<>> or <<b>>: a serialised key, possibly altered
    tampers,        \* how many times bytes was altered
    loaded,         \* <<>> or <<o>>: the outcome of the last from_bytes
    dropped,        \* <<>> or <<sk>>: the memory of a dropped SecretKey
    tagged,         \* <<>> or the last call of tag: its messages and outcome
    verified        \* <<>> or the last call of verify: its messages and result

vars == <<rng, params, lengthsChecked, key, keyParams, bytes, tampers, loaded,
          dropped, tagged, verified>>

codecVars == <<bytes, tampers, loaded, dropped>>
macVars   == <<tagged, verified>>

Init ==
    \E seed \in 0 .. (NumSeeds - 1), n \in 1 .. MaxAttrs, c \in BOOLEAN :
        LET g == SystemParametersGenerate(seed, n)
        IN  /\ rng = g.rng
            /\ params = g.sp
            /\ lengthsChecked = c
            /\ key = <<>>
            /\ keyParams = <<>>
            /\ bytes = <<>>
            /\ tampers = 0
            /\ loaded = <<>>
            /\ dropped = <<>>
            /\ tagged = <<>>
            /\ verified = <<>>

\* let sk = SecretKey::generate(&mut rng, &params)
Generate ==
    /\ key = <<>>
    /\ LET g == SecretKeyGenerate(rng, params)
       IN  /\ rng' = g.rng
           /\ key' = <<g.sk>>
           /\ keyParams' = <<params>>
    /\ UNCHANGED <<params, lengthsChecked, codecVars, macVars>>

\* The key is generated under other system parameters, with another
\* attribute count, than those in use.
GenerateOther ==
    /\ key = <<>>
    /\ \E n \in (1 .. MaxAttrs) \ {params.NUMBER_OF_ATTRIBUTES} :
          LET other == SystemParametersGenerate(rng, n)
              g     == SecretKeyGenerate(other.rng, other.sp)
          IN  /\ rng' = g.rng
              /\ key' = <<g.sk>>
              /\ keyParams' = <<other.sp>>
    /\ UNCHANGED <<params, lengthsChecked, codecVars, macVars>>

\* let bytes = sk.to_bytes()
ToBytes ==
    /\ key # <<>>
    /\ bytes = <<>>
    /\ bytes' = <<to_bytes(key[1])>>
    /\ UNCHANGED <<rng, params, lengthsChecked, key, keyParams, tampers, loaded,
                   dropped, macVars>>

\* The bytes are altered in storage or in transit: one 32-byte field is
\* overwritten.
TamperField ==
    /\ bytes # <<>>
    /\ loaded = <<>>
    /\ tampers < MaxTampers
    /\ \E i \in 1 .. Len(bytes[1].body), c \in Chunks :
          /\ c # bytes[1].body[i]
          /\ bytes' = <<[bytes[1] EXCEPT !.body[i] = c]>>
    /\ tampers' = tampers + 1
    /\ UNCHANGED <<rng, params, lengthsChecked, key, keyParams, loaded, dropped,
                   macVars>>

\* The attribute count in the first four bytes is overwritten.
TamperCount ==
    /\ bytes # <<>>
    /\ loaded = <<>>
    /\ tampers < MaxTampers
    /\ \E n \in 0 .. (MaxAttrs + 1) :
          /\ U32ToLeBytes(n) # bytes[1].head
          /\ bytes' = <<[bytes[1] EXCEPT !.head = U32ToLeBytes(n)]>>
    /\ tampers' = tampers + 1
    /\ UNCHANGED <<rng, params, lengthsChecked, key, keyParams, loaded, dropped,
                   macVars>>

\* The bytes are cut short: trailing 32-byte fields are lost.
Truncate ==
    /\ bytes # <<>>
    /\ loaded = <<>>
    /\ tampers < MaxTampers
    /\ \E n \in 0 .. (Len(bytes[1].body) - 1) :
          bytes' = <<[bytes[1] EXCEPT !.body = SubSeq(bytes[1].body, 1, n)]>>
    /\ tampers' = tampers + 1
    /\ UNCHANGED <<rng, params, lengthsChecked, key, keyParams, loaded, dropped,
                   macVars>>

\* let sk_prime = SecretKey::from_bytes(&bytes)
FromBytes ==
    /\ bytes # <<>>
    /\ loaded = <<>>
    /\ loaded' = <<from_bytes(bytes[1])>>
    /\ UNCHANGED <<rng, params, lengthsChecked, key, keyParams, bytes, tampers,
                   dropped, macVars>>

\* The generated key goes out of scope: impl Drop for SecretKey.
Drop ==
    /\ key # <<>>
    /\ loaded # <<>>
    /\ dropped = <<>>
    /\ dropped' = <<Zeroize(key[1])>>
    /\ key' = <<>>
    /\ UNCHANGED <<rng, params, lengthsChecked, keyParams, bytes, tampers, loaded,
                   macVars>>

\* One attribute of each variant, from which the vectors given to tag are
\* built.
TagPool == { PublicScalar(1), SecretScalar(2), PublicPoint(1), EitherPoint(2),
             SecretPoint(0) }

\* The attribute vectors of length 0 .. n over a pool.
Vectors(pool, n) == UNION { [1 .. k -> pool] : k \in 0 .. n }

\* The vectors given to verify for an Amac made over a: a itself, a with one
\* attribute replaced by any other, a without its last attribute, a with one
\* more attribute, a with two neighbours exchanged.
Variants(a) ==
    {a}
    \cup { [a EXCEPT ![i] = b] : i \in 1 .. Len(a), b \in Attributes }
    \cup { SubSeq(a, 1, Len(a) - 1) : k \in {1} \cap (1 .. Len(a)) }
    \cup { Append(a, b) : b \in TagPool }
    \cup { [a EXCEPT ![i] = a[i + 1], ![i + 1] = a[i]] : i \in 1 .. (Len(a) - 1) }

\* let amac = Amac::tag(&mut rng, &params, &sk, &messages)
Tag ==
    /\ key # <<>>
    /\ tagged = <<>>
    /\ \E messages \in Vectors(TagPool, params.NUMBER_OF_ATTRIBUTES + 1) :
          LET out == tag(rng, params, key[1], messages, lengthsChecked)
          IN  /\ tagged' = <<[messages |-> messages, rngBefore |-> rng, out |-> out]>>
              /\ rng' = out.rng
    /\ UNCHANGED <<params, lengthsChecked, key, keyParams, codecVars, verified>>

\* amac.verify(&params, &sk, &messages)
Verify ==
    /\ tagged # <<>>
    /\ tagged[1].out.amac # <<>>
    /\ verified = <<>>
    /\ \E messages \in Variants(tagged[1].messages) :
          verified' = <<[messages |-> messages,
                         result |-> verify(tagged[1].out.amac[1], params, key[1],
                                           messages, lengthsChecked)]>>
    /\ UNCHANGED <<rng, params, lengthsChecked, key, keyParams, codecVars, tagged>>

\* The life of a key and of its serialised form.
Next ==
    \/ Generate
    \/ GenerateOther
    \/ ToBytes
    \/ TamperField
    \/ TamperCount
    \/ Truncate
    \/ FromBytes
    \/ Drop

Spec == Init /\ [][Next]_vars

\* Tagging and verifying under a generated key.
NextMac ==
    \/ Generate
    \/ GenerateOther
    \/ Tag
    \/ Verify

SpecMac == Init /\ [][NextMac]_vars

\* ------------------------------------------------------------------ properties

\* The key the last tag was made under, and what the last calls were given.
TagMessages    == tagged[1].messages
TagResult      == tagged[1].out.result
VerifyMessages == verified[1].messages
VerifyResult   == verified[1].result

\* C1: for a key generated under the parameters in use and an attribute
\* vector of length 0 .. NUMBER_OF_ATTRIBUTES, tag succeeds, and verify of
\* the returned Amac with the same key and the same vector returns Ok.
C1_TagVerifyCompleteness ==
    (/\ tagged # <<>>
     /\ keyParams = <<params>>
     /\ Len(TagMessages) <= params.NUMBER_OF_ATTRIBUTES)
    => /\ TagResult = "Ok"
       /\ (verified # <<>> /\ VerifyMessages = TagMessages) => VerifyResult = "Ok"

\* C2: from_bytes(to_bytes(k)) is Ok with a key equal to k in w, w_prime,
\* x_0, x_1, every y[i] in order, and W.
C2_RoundTrip ==
    (loaded # <<>> /\ key # <<>> /\ tampers = 0)
    => /\ loaded[1].result = "Ok"
       /\ loaded[1].sk = key

\* C3 as stated: verify with the same parameters and key but an attribute
\* vector that is not identical to the tagged one returns AuthenticationError.
C3_AnyDifferenceRejected ==
    (verified # <<>> /\ VerifyMessages # TagMessages)
    => VerifyResult = "AuthenticationError"

\* The indices at which two vectors of the same length differ.
Differing(a, b) == { i \in 1 .. Len(a) : a[i] # b[i] }

\* C3 as amended: verify returns AuthenticationError when the vector has the
\* length of the tagged one and differs from it at exactly one index, which
\* the key covers, where the derived messages differ and y is not zero.
C3_SingleMessageChangeRejected ==
    (/\ verified # <<>>
     /\ Len(VerifyMessages) = Len(TagMessages)
     /\ \E i \in 1 .. Len(TagMessages) :
           /\ Differing(TagMessages, VerifyMessages) = {i}
           /\ i <= Len(key[1].y)
           /\ key[1].y[i] # 0
           /\ MessageOf(TagMessages[i], i, params) # MessageOf(VerifyMessages[i], i, params))
    => VerifyResult = "AuthenticationError"

\* A vector with one changed message, at an index whose y is not zero and
\* beside an unchanged attribute, was verified and rejected.
C3_Witness ==
    /\ verified # <<>>
    /\ Len(VerifyMessages) = Len(TagMessages)
    /\ Len(TagMessages) = 2
    /\ \E i \in 1 .. Len(TagMessages) :
          /\ Differing(TagMessages, VerifyMessages) = {i}
          /\ i <= Len(key[1].y)
          /\ key[1].y[i] # 0
          /\ MessageOf(TagMessages[i], i, params) # MessageOf(VerifyMessages[i], i, params)
    /\ VerifyResult = "AuthenticationError"

\* The attribute count of the serialised key: its first four bytes.
StoredCount == U32FromLeBytes(bytes[1].head)

\* C4: from_bytes returns Ok or Err(KeypairDeserialisation) for every byte
\* string, and Err(KeypairDeserialisation) for one shorter than
\* 32*(5+n)+4 bytes, n being the count in its first four bytes.
C4_FromBytesNeverPanics ==
    loaded # <<>>
    => /\ loaded[1].result \in {"Ok", "KeypairDeserialisation"}
       /\ ByteLen(bytes[1]) < sizeof_secret_key(StoredCount)
             => loaded[1].result = "KeypairDeserialisation"

\* The (1-based) fields of the body that hold scalars: w, w_prime, x_0, x_1
\* and y[0 .. n-1].
ScalarFields == 1 .. (4 + StoredCount)

\* C5: from_bytes of an input that holds all its fields returns
\* Err(KeypairDeserialisation) when one of its scalar fields is not a fully
\* reduced scalar.
C5_NonCanonicalRejected ==
    (/\ loaded # <<>>
     /\ ByteLen(bytes[1]) >= sizeof_secret_key(StoredCount)
     /\ \E f \in ScalarFields : FromCanonicalBytes(bytes[1].body[f]) = <<>>)
    => loaded[1].result = "KeypairDeserialisation"

\* C6: tag with more than NUMBER_OF_ATTRIBUTES attributes returns
\* MessageLengthError{length: NUMBER_OF_ATTRIBUTES}, takes nothing from the
\* random source and computes no V; with at most NUMBER_OF_ATTRIBUTES
\* attributes it does not return MessageLengthError.
C6_LengthBound ==
    tagged # <<>>
    => IF Len(TagMessages) > params.NUMBER_OF_ATTRIBUTES
       THEN /\ TagResult = "MessageLengthError"
            /\ tagged[1].out.length = params.NUMBER_OF_ATTRIBUTES
            /\ tagged[1].out.rng = tagged[1].rngBefore
            /\ tagged[1].out.drew = 0
            /\ ~ tagged[1].out.computed
            /\ tagged[1].out.amac = <<>>
       ELSE TagResult # "MessageLengthError"

\* tag was given one attribute too many and refused it.
C6_Witness ==
    /\ tagged # <<>>
    /\ Len(TagMessages) = params.NUMBER_OF_ATTRIBUTES + 1
    /\ TagResult = "MessageLengthError"
    /\ rng = tagged[1].rngBefore

\* C7: every live SecretKey, from generate or from a successful from_bytes,
\* has W = G_w * w for the generator G_w of its system parameters.
C7_KeyInvariant ==
    /\ key # <<>> => key[1].W = PointMul(key[1].w, keyParams[1].G_w)
    /\ (loaded # <<>> /\ loaded[1].result = "Ok")
          => loaded[1].sk[1].W = PointMul(loaded[1].sk[1].w, keyParams[1].G_w)

\* C8: when from_bytes returns Err(KeypairDeserialisation) having decoded at
\* least one scalar, the decoded scalars and the working buffer hold zeroes.
C8_ErasedOnError ==
    (/\ loaded # <<>>
     /\ loaded[1].result = "KeypairDeserialisation"
     /\ loaded[1].decoded # <<>>)
    => /\ loaded[1].chunk = 0
       /\ \A i \in 1 .. Len(loaded[1].decoded) : loaded[1].decoded[i] = 0

\* C9: verify returns Ok or an error kind, also for a vector that holds a
\* scalar attribute at an index beyond NUMBER_OF_ATTRIBUTES.
C9_VerifyNeverPanics ==
    (/\ verified # <<>>
     /\ \E i \in 1 .. Len(VerifyMessages) :
           /\ i > params.NUMBER_OF_ATTRIBUTES
           /\ IsScalarAttribute(VerifyMessages[i]))
    => VerifyResult \in {"Ok", "AuthenticationError"}

\* C10: tag returns Ok only if the key has a y for every attribute, and
\* returns MessageLengthError for a vector longer than the key's y.
C10_TagCoveredByKey ==
    tagged # <<>>
    => /\ TagResult = "Ok" => Len(TagMessages) <= Len(key[1].y)
       /\ Len(TagMessages) > Len(key[1].y) => TagResult = "MessageLengthError"

====
